---------------------------- MODULE Spec2Model ----------------------------
(***************************************************************************)
(* A model of the two GRUB USB SNES gamepad drivers of this repository:    *)
(*   src/src/usb_snes_gamepad.c   (definitions prefixed G_)                *)
(*   src/src/usb_snes.c           (definitions prefixed S_)                *)
(* Both files define the same C names (key_queue_push, AXIS_CENTER, ...);  *)
(* the prefix tells the two translations apart.                            *)
(***************************************************************************)
EXTENDS Integers, Sequences, FiniteSets, TLC

(***************************************************************************)
(* Program constants                                                       *)
(***************************************************************************)
G_GAMEPADS_CAPACITY == 8
G_KEY_QUEUE_CAPACITY == 32
G_USB_REPORT_SIZE == 8
G_AXIS_CENTER == 127
G_AXIS_THRESHOLD == 64

S_MAX_GAMEPADS == 8
S_KEY_QUEUE_CAPACITY == 32
S_SNES_REPORT_SIZE == 8
S_AXIS_CENTER == 127
S_AXIS_THRESHOLD == 64

\* grub_uint8_t: the largest value of a report byte
UINT8_MAX == 255

\* Button bit positions in report byte 4 (BTN_x == 1 << bit)
BTN_X == 0
BTN_A == 1
BTN_B == 2
BTN_Y == 3
BTN_L == 4
BTN_R == 5
BTN_SELECT == 6
BTN_START == 7

(***************************************************************************)
(* Key codes (int in the C code).  The numbers are those of grub/term.h    *)
(* and of the character literals; the model only relies on their being     *)
(* distinct.                                                               *)
(***************************************************************************)
GRUB_TERM_NO_KEY == 0
GRUB_TERM_KEY_UP == 8388680
GRUB_TERM_KEY_DOWN == 8388688
GRUB_TERM_KEY_LEFT == 8388683
GRUB_TERM_KEY_RIGHT == 8388685
GRUB_TERM_ESC == 27
GRUB_TERM_KEY_PPAGE == 8388681
GRUB_TERM_KEY_NPAGE == 8388689
CHAR_CR == 13
CHAR_e == 101
CHAR_c == 99

\* usb_snes_gamepad.c: the static key mapping variables
key_up == GRUB_TERM_KEY_UP
key_down == GRUB_TERM_KEY_DOWN
key_left == GRUB_TERM_KEY_LEFT
key_right == GRUB_TERM_KEY_RIGHT
key_a == CHAR_CR
key_b == GRUB_TERM_ESC
key_start == CHAR_CR
key_select == CHAR_e
key_x == CHAR_c
key_y == GRUB_TERM_ESC
key_l == GRUB_TERM_KEY_PPAGE
key_r == GRUB_TERM_KEY_NPAGE

(***************************************************************************)
(* Reports: 8 bytes, kept as a sequence; Byte(r, k) is the C r[k].         *)
(***************************************************************************)
Byte(r, k) == r[k + 1]

\* (b & (1 << bit)) != 0
BitSet(b, bit) == (b \div (2 ^ bit)) % 2 = 1

baseline_report == <<127, 127, 127, 127, 0, 0, 0, 0>>
ZeroReport == <<0, 0, 0, 0, 0, 0, 0, 0>>

MkReport(x, y, btns) == <<x, y, 127, 127, btns, 0, 0, 0>>

(***************************************************************************)
(* Ring queue, usb_snes_gamepad.c.  The array cells are kept as the code   *)
(* keeps them (stale cells included).  h_enq, h_evict are history fields:  *)
(* the keys stored so far and the number of pushes that found the queue    *)
(* full; the code does not read them.                                      *)
(***************************************************************************)
G_QueueMutDropNewest(data, key) ==
    IF key = GRUB_TERM_NO_KEY THEN data
    ELSE IF data.key_queue_size < G_KEY_QUEUE_CAPACITY
         THEN [data EXCEPT
                 !.key_queue[(data.key_queue_begin + data.key_queue_size)
                             % G_KEY_QUEUE_CAPACITY] = key,
                 !.key_queue_size = @ + 1,
                 !.h_enq = Append(@, key)]
         ELSE data

G_key_queue_push(data, key) ==
    IF key = GRUB_TERM_NO_KEY THEN data
    ELSE LET pos == (data.key_queue_begin + data.key_queue_size)
                    % G_KEY_QUEUE_CAPACITY
             d1 == [data EXCEPT !.key_queue[pos] = key,
                                !.h_enq = Append(@, key)]
         IN IF d1.key_queue_size < G_KEY_QUEUE_CAPACITY
            THEN [d1 EXCEPT !.key_queue_size = @ + 1]
            ELSE [d1 EXCEPT !.key_queue_begin = (@ + 1) % G_KEY_QUEUE_CAPACITY,
                            !.h_evict = @ + 1]

G_PopMutNoAdvance(data) ==
    IF data.key_queue_size <= 0
    THEN [ret |-> GRUB_TERM_NO_KEY, data |-> data]
    ELSE [ret |-> data.key_queue[data.key_queue_begin],
          data |-> [data EXCEPT !.key_queue_size = @ - 1]]

G_PopMutNoRemove(data) ==
    IF data.key_queue_size <= 0
    THEN [ret |-> GRUB_TERM_NO_KEY, data |-> data]
    ELSE [ret |-> data.key_queue[data.key_queue_begin], data |-> data]

\* returns the popped key and the session after the pop
G_key_queue_pop(data) ==
    IF data.key_queue_size <= 0
    THEN [ret |-> GRUB_TERM_NO_KEY, data |-> data]
    ELSE [ret |-> data.key_queue[data.key_queue_begin],
          data |-> [data EXCEPT
                      !.key_queue_begin = (@ + 1) % G_KEY_QUEUE_CAPACITY,
                      !.key_queue_size = @ - 1]]

(***************************************************************************)
(* Ring queue, usb_snes.c (head, tail and count; a full queue drops the    *)
(* new key).  h_drop counts the pushes that found the queue full.          *)
(***************************************************************************)
S_PushMutNoWrap(data, key) ==
    IF data.key_queue_count >= S_KEY_QUEUE_CAPACITY \/ key = GRUB_TERM_NO_KEY
    THEN data
    ELSE [data EXCEPT !.key_queue[data.key_queue_tail % S_KEY_QUEUE_CAPACITY] = key,
                      !.key_queue_tail = @ + 1,
                      !.key_queue_count = @ + 1,
                      !.h_enq = Append(@, key)]

S_PushMutDropOldest(data, key) ==
    IF key = GRUB_TERM_NO_KEY THEN data
    ELSE IF data.key_queue_count >= S_KEY_QUEUE_CAPACITY
    THEN [data EXCEPT !.key_queue[data.key_queue_tail] = key,
                      !.key_queue_tail = (@ + 1) % S_KEY_QUEUE_CAPACITY,
                      !.key_queue_head = (@ + 1) % S_KEY_QUEUE_CAPACITY,
                      !.h_drop = @ + 1]
    ELSE [data EXCEPT !.key_queue[data.key_queue_tail] = key,
                      !.key_queue_tail = (@ + 1) % S_KEY_QUEUE_CAPACITY,
                      !.key_queue_count = @ + 1,
                      !.h_enq = Append(@, key)]

\* if (data->key_queue_count >= 32 || key == GRUB_TERM_NO_KEY) return;
S_key_queue_push(data, key) ==
    IF data.key_queue_count >= S_KEY_QUEUE_CAPACITY
    THEN (IF key = GRUB_TERM_NO_KEY THEN data
          ELSE [data EXCEPT !.h_drop = @ + 1])
    ELSE IF key = GRUB_TERM_NO_KEY THEN data
    ELSE [data EXCEPT !.key_queue[data.key_queue_tail] = key,
                      !.key_queue_tail = (@ + 1) % S_KEY_QUEUE_CAPACITY,
                      !.key_queue_count = @ + 1,
                      !.h_enq = Append(@, key)]

S_PopMutNoAdvance(data) ==
    IF data.key_queue_count <= 0
    THEN [ret |-> GRUB_TERM_NO_KEY, data |-> data]
    ELSE [ret |-> data.key_queue[data.key_queue_head], data |-> data]

S_key_queue_pop(data) ==
    IF data.key_queue_count <= 0
    THEN [ret |-> GRUB_TERM_NO_KEY, data |-> data]
    ELSE [ret |-> data.key_queue[data.key_queue_head],
          data |-> [data EXCEPT
                      !.key_queue_head = (@ + 1) % S_KEY_QUEUE_CAPACITY,
                      !.key_queue_count = @ - 1]]

(***************************************************************************)
(* Report codec, usb_snes_gamepad.c: process_report                        *)
(***************************************************************************)
G_AxisLowMut(v) == v <= G_AXIS_CENTER - G_AXIS_THRESHOLD

\* (v < AXIS_CENTER - AXIS_THRESHOLD)
G_AxisLow(v) == v < G_AXIS_CENTER - G_AXIS_THRESHOLD

\* (v > AXIS_CENTER + AXIS_THRESHOLD)
G_AxisHigh(v) == v > G_AXIS_CENTER + G_AXIS_THRESHOLD

G_BtnPressedMutLevel(p, c, bit) == BitSet(c, bit)

\* BTN_PRESSED(p, c, m)
G_BTN_PRESSED(p, c, bit) == (~BitSet(p, bit)) /\ BitSet(c, bit)

G_PushIf(cond, data, key) == IF cond THEN G_key_queue_push(data, key) ELSE data

\* process_report, the D-pad part: Up, Down, Left, Right
G_process_dpad(data) ==
    LET prev == data.prev_report
        curr == data.report
        prev_left == G_AxisLow(Byte(prev, 0))
        prev_right == G_AxisHigh(Byte(prev, 0))
        curr_left == G_AxisLow(Byte(curr, 0))
        curr_right == G_AxisHigh(Byte(curr, 0))
        prev_up == G_AxisLow(Byte(prev, 1))
        prev_down == G_AxisHigh(Byte(prev, 1))
        curr_up == G_AxisLow(Byte(curr, 1))
        curr_down == G_AxisHigh(Byte(curr, 1))
        d1 == G_PushIf((~prev_up) /\ curr_up, data, key_up)
        d2 == G_PushIf((~prev_down) /\ curr_down, d1, key_down)
        d3 == G_PushIf((~prev_left) /\ curr_left, d2, key_left)
        d4 == G_PushIf((~prev_right) /\ curr_right, d3, key_right)
    IN d4

G_ButtonsMutBFirst(data) ==
    LET prev_btns == Byte(data.prev_report, 4)
        curr_btns == Byte(data.report, 4)
        d5 == G_PushIf(G_BTN_PRESSED(prev_btns, curr_btns, BTN_B), data, key_b)
        d6 == G_PushIf(G_BTN_PRESSED(prev_btns, curr_btns, BTN_A), d5, key_a)
        d7 == G_PushIf(G_BTN_PRESSED(prev_btns, curr_btns, BTN_X), d6, key_x)
        d8 == G_PushIf(G_BTN_PRESSED(prev_btns, curr_btns, BTN_Y), d7, key_y)
        d9 == G_PushIf(G_BTN_PRESSED(prev_btns, curr_btns, BTN_START), d8, key_start)
        d10 == G_PushIf(G_BTN_PRESSED(prev_btns, curr_btns, BTN_SELECT), d9, key_select)
        d11 == G_PushIf(G_BTN_PRESSED(prev_btns, curr_btns, BTN_L), d10, key_l)
        d12 == G_PushIf(G_BTN_PRESSED(prev_btns, curr_btns, BTN_R), d11, key_r)
    IN d12

\* process_report, the buttons of byte 4: A, B, X, Y, Start, Select, L, R
G_process_buttons(data) ==
    LET prev_btns == Byte(data.prev_report, 4)
        curr_btns == Byte(data.report, 4)
        d5 == G_PushIf(G_BTN_PRESSED(prev_btns, curr_btns, BTN_A), data, key_a)
        d6 == G_PushIf(G_BTN_PRESSED(prev_btns, curr_btns, BTN_B), d5, key_b)
        d7 == G_PushIf(G_BTN_PRESSED(prev_btns, curr_btns, BTN_X), d6, key_x)
        d8 == G_PushIf(G_BTN_PRESSED(prev_btns, curr_btns, BTN_Y), d7, key_y)
        d9 == G_PushIf(G_BTN_PRESSED(prev_btns, curr_btns, BTN_START), d8, key_start)
        d10 == G_PushIf(G_BTN_PRESSED(prev_btns, curr_btns, BTN_SELECT), d9, key_select)
        d11 == G_PushIf(G_BTN_PRESSED(prev_btns, curr_btns, BTN_L), d10, key_l)
        d12 == G_PushIf(G_BTN_PRESSED(prev_btns, curr_btns, BTN_R), d11, key_r)
    IN d12

G_process_report(data) == G_process_buttons(G_process_dpad(data))

(***************************************************************************)
(* Report codec, usb_snes.c: parse_snes_report                             *)
(***************************************************************************)
S_AxisLow(v) == v < S_AXIS_CENTER - S_AXIS_THRESHOLD

S_AxisHigh(v) == v > S_AXIS_CENTER + S_AXIS_THRESHOLD

\* !(prev_btns & m) && (curr_btns & m)
S_Rise(p, c, bit) == (~BitSet(p, bit)) /\ BitSet(c, bit)

S_PushIf(cond, data, key) == IF cond THEN S_key_queue_push(data, key) ELSE data

\* parse_snes_report, the D-pad part: Up, Down, Left, Right
S_parse_dpad(data) ==
    LET prev == data.prev_report
        curr == data.report
        prev_up == S_AxisLow(Byte(prev, 1))
        prev_down == S_AxisHigh(Byte(prev, 1))
        prev_left == S_AxisLow(Byte(prev, 0))
        prev_right == S_AxisHigh(Byte(prev, 0))
        curr_up == S_AxisLow(Byte(curr, 1))
        curr_down == S_AxisHigh(Byte(curr, 1))
        curr_left == S_AxisLow(Byte(curr, 0))
        curr_right == S_AxisHigh(Byte(curr, 0))
        d1 == S_PushIf((~prev_up) /\ curr_up, data, GRUB_TERM_KEY_UP)
        d2 == S_PushIf((~prev_down) /\ curr_down, d1, GRUB_TERM_KEY_DOWN)
        d3 == S_PushIf((~prev_left) /\ curr_left, d2, GRUB_TERM_KEY_LEFT)
        d4 == S_PushIf((~prev_right) /\ curr_right, d3, GRUB_TERM_KEY_RIGHT)
    IN d4

S_ButtonsMutSwapXY(data) ==
    LET prev_btns == Byte(data.prev_report, 4)
        curr_btns == Byte(data.report, 4)
        d5 == S_PushIf(S_Rise(prev_btns, curr_btns, BTN_A)
                         \/ S_Rise(prev_btns, curr_btns, BTN_B), data, CHAR_CR)
        d6 == S_PushIf(S_Rise(prev_btns, curr_btns, BTN_START), d5, CHAR_CR)
        d7 == S_PushIf(S_Rise(prev_btns, curr_btns, BTN_SELECT), d6, GRUB_TERM_ESC)
        d8 == S_PushIf(S_Rise(prev_btns, curr_btns, BTN_X), d7, CHAR_c)
        d9 == S_PushIf(S_Rise(prev_btns, curr_btns, BTN_Y), d8, CHAR_e)
        d10 == S_PushIf(S_Rise(prev_btns, curr_btns, BTN_L), d9, GRUB_TERM_KEY_PPAGE)
        d11 == S_PushIf(S_Rise(prev_btns, curr_btns, BTN_R), d10, GRUB_TERM_KEY_NPAGE)
    IN d11

S_ButtonsMutSplitAB(data) ==
    LET prev_btns == Byte(data.prev_report, 4)
        curr_btns == Byte(data.report, 4)
        d5a == S_PushIf(S_Rise(prev_btns, curr_btns, BTN_A), data, CHAR_CR)
        d5 == S_PushIf(S_Rise(prev_btns, curr_btns, BTN_B), d5a, CHAR_CR)
        d6 == S_PushIf(S_Rise(prev_btns, curr_btns, BTN_START), d5, CHAR_CR)
        d7 == S_PushIf(S_Rise(prev_btns, curr_btns, BTN_SELECT), d6, GRUB_TERM_ESC)
        d8 == S_PushIf(S_Rise(prev_btns, curr_btns, BTN_X), d7, CHAR_e)
        d9 == S_PushIf(S_Rise(prev_btns, curr_btns, BTN_Y), d8, CHAR_c)
        d10 == S_PushIf(S_Rise(prev_btns, curr_btns, BTN_L), d9, GRUB_TERM_KEY_PPAGE)
        d11 == S_PushIf(S_Rise(prev_btns, curr_btns, BTN_R), d10, GRUB_TERM_KEY_NPAGE)
    IN d11

\* parse_snes_report, the buttons of byte 4:
\* A/B combined, Start, Select, X, Y, L, R
S_parse_buttons(data) ==
    LET prev_btns == Byte(data.prev_report, 4)
        curr_btns == Byte(data.report, 4)
        d5 == S_PushIf(S_Rise(prev_btns, curr_btns, BTN_A)
                         \/ S_Rise(prev_btns, curr_btns, BTN_B), data, CHAR_CR)
        d6 == S_PushIf(S_Rise(prev_btns, curr_btns, BTN_START), d5, CHAR_CR)
        d7 == S_PushIf(S_Rise(prev_btns, curr_btns, BTN_SELECT), d6, GRUB_TERM_ESC)
        d8 == S_PushIf(S_Rise(prev_btns, curr_btns, BTN_X), d7, CHAR_e)
        d9 == S_PushIf(S_Rise(prev_btns, curr_btns, BTN_Y), d8, CHAR_c)
        d10 == S_PushIf(S_Rise(prev_btns, curr_btns, BTN_L), d9, GRUB_TERM_KEY_PPAGE)
        d11 == S_PushIf(S_Rise(prev_btns, curr_btns, BTN_R), d10, GRUB_TERM_KEY_NPAGE)
    IN d11

S_parse_snes_report(data) == S_parse_buttons(S_parse_dpad(data))

(***************************************************************************)
(* State                                                                   *)
(***************************************************************************)
VARIABLES
    impl,   \* "gamepad" (usb_snes_gamepad.c) or "snes" (usb_snes.c)
    terms,  \* the slot table: gamepads[] / grub_usb_snes_terms[]
    mem,    \* per slot, the heap object its data pointer was given:
            \*   "none", "live" or "freed"
    sess,   \* per slot, the struct grub_usb_snes_data of a live object
    hw,     \* per slot, the host's state of the session's background read
    last,   \* the last call made and what it returned
    ub      \* a call has executed undefined behaviour

vars == <<impl, terms, mem, sess, hw, last, ub>>

Impls == {"gamepad", "snes"}

NSlots == IF impl = "gamepad" THEN G_GAMEPADS_CAPACITY ELSE S_MAX_GAMEPADS
Slots == 0 .. (NSlots - 1)

\* a slot as the zero-initialised static array holds it
EmptySlot ==
    [name |-> "NULL", name_idx |-> -1, data |-> "NULL",
     getkey |-> FALSE, registered |-> FALSE]

NoSession == [usbdev |-> "none"]
NoRead == [st |-> "none", err |-> "NONE", actual |-> 0]
PendingRead == [st |-> "pending", err |-> "NONE", actual |-> 0]

\* a cell of malloc'ed memory that was never written
UNINIT_CELL == -1

\* op: the call; why: the path it took; slot: the slot it worked on;
\* key: getkey's return value; rc: attach's return value, and for getkey
\* whether the call ran the codec on a completed report; calls: the calls
\* the handler made on reads, registrations and heap objects, in order,
\* each with the slot it was made for; dev: the handle given to detach
Call(op, why, slot, key, rc) ==
    [op |-> op, why |-> why, slot |-> slot, key |-> key, rc |-> rc,
     calls |-> <<>>, dev |-> "none"]

Logged(c, log) == [c EXCEPT !.calls = log]

\* struct grub_usb_snes_data after attach has initialised it
G_NewSession(usbdev) ==
    [usbdev |-> usbdev, transfer |-> "UNINIT",
     report |-> ZeroReport, prev_report |-> baseline_report,
     key_queue |-> [k \in 0 .. (G_KEY_QUEUE_CAPACITY - 1) |-> UNINIT_CELL],
     key_queue_begin |-> 0, key_queue_size |-> 0,
     h_enq |-> <<>>, h_evict |-> 0, h_ret |-> <<>>]

S_NewSession(usbdev) ==
    [usbdev |-> usbdev, transfer |-> "NULL",
     report |-> ZeroReport, prev_report |-> baseline_report, dead |-> 0,
     key_queue |-> [k \in 0 .. (S_KEY_QUEUE_CAPACITY - 1) |-> 0],
     key_queue_head |-> 0, key_queue_tail |-> 0, key_queue_count |-> 0,
     h_enq |-> <<>>, h_drop |-> 0, h_ret |-> <<>>]

\* the queue's logical contents, oldest first
G_Contents(d) ==
    [k \in 1 .. d.key_queue_size |->
        d.key_queue[(d.key_queue_begin + k - 1) % G_KEY_QUEUE_CAPACITY]]

S_Contents(d) ==
    [k \in 1 .. d.key_queue_count |->
        d.key_queue[(d.key_queue_head + k - 1) % S_KEY_QUEUE_CAPACITY]]

Contents(d) == IF impl = "gamepad" THEN G_Contents(d) ELSE S_Contents(d)

(***************************************************************************)
(* Slot registry: attach                                                   *)
(*   fail names the first step of the call that the environment makes      *)
(*   fail: "filter" (device not offered to the driver), "endp" (no         *)
(*   interrupt IN endpoint), "malloc", "name" (grub_xasprintf), "read"     *)
(*   (grub_usb_bulk_read_background), or "none".                           *)
(***************************************************************************)
AttachFails == {"none", "filter", "endp", "malloc", "name", "read"}

MinOf(S) == CHOOSE x \in S : \A y \in S : x <= y
MaxOf(S) == CHOOSE x \in S : \A y \in S : x >= y

G_FindFreeSlotMutLast ==
    LET free == {i \in Slots : terms[i].data = "NULL"}
    IN IF free = {} THEN NSlots ELSE MaxOf(free)

\* for (curnum = 0; ...; curnum++) if (!gamepads[curnum].data) break;
G_FindFreeSlot ==
    LET free == {i \in Slots : terms[i].data = "NULL"}
    IN IF free = {} THEN NSlots ELSE MinOf(free)

S_FindFreeSlot ==
    LET free == {i \in Slots : terms[i].data = "NULL"}
    IN IF free = {} THEN NSlots ELSE MinOf(free)

G_attach(usbdev, fail) ==
    LET curnum == G_FindFreeSlot IN
    /\ impl = "gamepad"
    /\ UNCHANGED <<impl, ub>>
    /\ IF fail = "filter"
       THEN /\ last' = Call("attach", "filter", -1, GRUB_TERM_NO_KEY, 0)
            /\ UNCHANGED <<terms, mem, sess, hw>>
       ELSE IF curnum >= G_GAMEPADS_CAPACITY
       THEN /\ last' = Call("attach", "noslot", -1, GRUB_TERM_NO_KEY, 0)
            /\ UNCHANGED <<terms, mem, sess, hw>>
       ELSE IF fail \in {"endp", "malloc"}
       THEN /\ last' = Call("attach", fail, curnum, GRUB_TERM_NO_KEY, 0)
            /\ UNCHANGED <<terms, mem, sess, hw>>
       ELSE IF fail = "name"
       THEN \* name = NULL; grub_free (data); return 0
            /\ terms' = [terms EXCEPT ![curnum].name = "NULL",
                                      ![curnum].name_idx = -1]
            /\ last' = Logged(Call("attach", "name", curnum, GRUB_TERM_NO_KEY, 0),
                              <<<<"free_data", curnum>>>>)
            /\ UNCHANGED <<mem, sess, hw>>
       ELSE IF fail = "read"
       THEN \* the name is freed and nulled, data is freed; .data keeps the pointer
            /\ terms' = [terms EXCEPT ![curnum] =
                            [name |-> "NULL", name_idx |-> -1, data |-> "PTR",
                             getkey |-> TRUE, registered |-> @.registered]]
            /\ mem' = [mem EXCEPT ![curnum] = "freed"]
            /\ sess' = [sess EXCEPT ![curnum] = NoSession]
            /\ last' = Logged(Call("attach", "read", curnum, GRUB_TERM_NO_KEY, 0),
                              <<<<"start", curnum>>, <<"free_name", curnum>>,
                                <<"free_data", curnum>>>>)
            /\ UNCHANGED hw
       ELSE /\ terms' = [terms EXCEPT ![curnum] =
                            [name |-> "STR", name_idx |-> curnum, data |-> "PTR",
                             getkey |-> TRUE, registered |-> TRUE]]
            /\ mem' = [mem EXCEPT ![curnum] = "live"]
            /\ sess' = [sess EXCEPT ![curnum] =
                            [G_NewSession(usbdev) EXCEPT !.transfer = "PTR"]]
            /\ hw' = [hw EXCEPT ![curnum] = PendingRead]
            /\ last' = Logged(Call("attach", "ok", curnum, GRUB_TERM_NO_KEY, 1),
                              <<<<"start", curnum>>, <<"register", curnum>>>>)

S_attach(usbdev, fail) ==
    LET curnum == S_FindFreeSlot IN
    /\ impl = "snes"
    /\ UNCHANGED <<impl, ub>>
    /\ IF fail = "filter"
       THEN /\ last' = Call("attach", "filter", -1, GRUB_TERM_NO_KEY, 0)
            /\ UNCHANGED <<terms, mem, sess, hw>>
       ELSE IF curnum = S_MAX_GAMEPADS
       THEN /\ last' = Call("attach", "noslot", -1, GRUB_TERM_NO_KEY, 0)
            /\ UNCHANGED <<terms, mem, sess, hw>>
       ELSE IF fail \in {"endp", "malloc"}
       THEN /\ last' = Call("attach", fail, curnum, GRUB_TERM_NO_KEY, 0)
            /\ UNCHANGED <<terms, mem, sess, hw>>
       ELSE IF fail = "name"
       THEN \* .name, .getkey, .data are stored first; then grub_free (data)
            /\ terms' = [terms EXCEPT ![curnum] =
                            [name |-> "NULL", name_idx |-> -1, data |-> "PTR",
                             getkey |-> TRUE, registered |-> @.registered]]
            /\ mem' = [mem EXCEPT ![curnum] = "freed"]
            /\ sess' = [sess EXCEPT ![curnum] = NoSession]
            /\ last' = Logged(Call("attach", "name", curnum, GRUB_TERM_NO_KEY, 0),
                              <<<<"free_data", curnum>>>>)
            /\ UNCHANGED hw
       ELSE IF fail = "read"
       THEN \* the name is freed (.name keeps the pointer), data freed and nulled
            /\ terms' = [terms EXCEPT ![curnum] =
                            [name |-> "FREED", name_idx |-> curnum, data |-> "NULL",
                             getkey |-> TRUE, registered |-> @.registered]]
            /\ last' = Logged(Call("attach", "read", curnum, GRUB_TERM_NO_KEY, 0),
                              <<<<"start", curnum>>, <<"free_name", curnum>>,
                                <<"free_data", curnum>>>>)
            /\ UNCHANGED <<mem, sess, hw>>
       ELSE /\ terms' = [terms EXCEPT ![curnum] =
                            [name |-> "STR", name_idx |-> curnum, data |-> "PTR",
                             getkey |-> TRUE, registered |-> TRUE]]
            /\ mem' = [mem EXCEPT ![curnum] = "live"]
            /\ sess' = [sess EXCEPT ![curnum] =
                            [S_NewSession(usbdev) EXCEPT !.transfer = "PTR"]]
            /\ hw' = [hw EXCEPT ![curnum] = PendingRead]
            /\ last' = Logged(Call("attach", "ok", curnum, GRUB_TERM_NO_KEY, 1),
                              <<<<"start", curnum>>, <<"register", curnum>>>>)

Attach(usbdev, fail) == G_attach(usbdev, fail) \/ S_attach(usbdev, fail)

(***************************************************************************)
(* Slot registry: detach and module teardown.  The loop bodies of the two  *)
(* files are the same statements.  A slot whose data pointer refers to a   *)
(* freed object makes the loop read freed memory: the comparison of        *)
(* data->usbdev may come out either way (U is the set of such slots where  *)
(* it comes out equal), and going on frees the object a second time.       *)
(***************************************************************************)
Dangling == {i \in Slots : terms[i].data = "PTR" /\ mem[i] = "freed"}

\* if (!data || data->usbdev != usbdev) continue;
DetachMatches(i, usbdev, U) ==
    /\ terms[i].data = "PTR"
    /\ \/ mem[i] = "live" /\ sess[i].usbdev = usbdev
       \/ mem[i] = "freed" /\ i \in U

\* the slots torn down by module teardown: if (!data) continue;
FiniMatches(i) == terms[i].data = "PTR"

\* unregister; free name; name = NULL; free data; data = NULL
TornDown(slot) ==
    [slot EXCEPT !.name = "NULL", !.name_idx = -1, !.data = "NULL",
                 !.registered = FALSE]

CancelsMutInverted(i) == mem[i] = "live" /\ sess[i].transfer # "PTR"

CancelsMutAlways(i) == mem[i] = "live"

\* if (data->transfer) grub_usb_cancel_transfer (data->transfer);
Cancels(i) == mem[i] = "live" /\ sess[i].transfer = "PTR"

\* the loop body's calls for the slots of M, in index order.  V: the slots
\* of M whose freed object yields a non-null data->transfer
RECURSIVE TearDownCalls(_, _)
TearDownCalls(M, V) ==
    IF M = {} THEN <<>>
    ELSE LET i == MinOf(M) IN
         (IF Cancels(i) \/ i \in V THEN <<<<"cancel", i>>>> ELSE <<>>)
         \o <<<<"unregister", i>>, <<"free_name", i>>, <<"free_data", i>>>>
         \o TearDownCalls(M \ {i}, V)

TearDown(M, op, usbdev) ==
    /\ terms' = [i \in Slots |-> IF i \in M THEN TornDown(terms[i]) ELSE terms[i]]
    /\ mem' = [i \in Slots |-> IF i \in M THEN "none" ELSE mem[i]]
    /\ sess' = [i \in Slots |-> IF i \in M THEN NoSession ELSE sess[i]]
    \* a cancelled read is no longer in flight
    /\ hw' = [i \in Slots |-> IF i \in M /\ Cancels(i) THEN NoRead ELSE hw[i]]
    \* the loop reads data->usbdev (detach) or data->transfer (teardown) of
    \* every slot whose data pointer is non-null, freed objects included
    /\ ub' = (ub \/ (Dangling # {}))
    /\ \E V \in SUBSET (M \cap Dangling) :
          last' = [Logged(Call(op, "ok", -1, GRUB_TERM_NO_KEY, 0),
                          TearDownCalls(M, V)) EXCEPT !.dev = usbdev]
    /\ UNCHANGED impl

G_detach(usbdev, U) ==
    /\ impl = "gamepad"
    /\ TearDown({i \in Slots : DetachMatches(i, usbdev, U)}, "detach", usbdev)

S_detach(usbdev, U) ==
    /\ impl = "snes"
    /\ TearDown({i \in Slots : DetachMatches(i, usbdev, U)}, "detach", usbdev)

Detach(usbdev) ==
    \E U \in SUBSET Dangling : G_detach(usbdev, U) \/ S_detach(usbdev, U)

G_fini ==
    /\ impl = "gamepad"
    /\ TearDown({i \in Slots : FiniMatches(i)}, "fini", "none")

S_fini ==
    /\ impl = "snes"
    /\ TearDown({i \in Slots : FiniMatches(i)}, "fini", "none")

Fini == G_fini \/ S_fini

(***************************************************************************)
(* The host's side of a background read: the pending read of slot i        *)
(* finishes with status err after n bytes of r were stored in data->report *)
(***************************************************************************)
ReadComplete(i, r, err, n) ==
    /\ mem[i] = "live"
    /\ hw[i].st = "pending"
    /\ hw' = [hw EXCEPT ![i] = [st |-> "done", err |-> err, actual |-> n]]
    /\ sess' = [sess EXCEPT ![i].report =
                    [k \in 1 .. 8 |-> IF k <= n THEN r[k] ELSE @[k]]]
    /\ last' = Call("complete", err, i, GRUB_TERM_NO_KEY, n)
    /\ UNCHANGED <<impl, terms, mem, ub>>

CheckTransferMutNoWait(i) == [err |-> hw[i].err, actual |-> hw[i].actual]

\* grub_usb_check_transfer on a started read
CheckTransfer(i) ==
    IF hw[i].st = "pending"
    THEN [err |-> "WAIT", actual |-> 0]
    ELSE [err |-> hw[i].err, actual |-> hw[i].actual]

\* what grub_usb_check_transfer (NULL, ...) may produce
UBResults ==
    {[err |-> "WAIT", actual |-> 0], [err |-> "NONE", actual |-> 8],
     [err |-> "ERR", actual |-> 0], [err |-> "CRASH", actual |-> 0]}

Returned(d, key) ==
    IF key = GRUB_TERM_NO_KEY THEN d ELSE [d EXCEPT !.h_ret = Append(@, key)]

(***************************************************************************)
(* grub_usb_snes_getkey, usb_snes_gamepad.c.  rearm: whether               *)
(* grub_usb_bulk_read_background returns a handle.  After a failed re-arm  *)
(* data->transfer is NULL and the next call hands NULL to                  *)
(* grub_usb_check_transfer: ubres is what that call produces.              *)
(***************************************************************************)
G_getkey(i, rearm, ubres) ==
    LET data == sess[i]
        nullxfer == data.transfer # "PTR"
        res == IF nullxfer THEN ubres ELSE CheckTransfer(i)
        ran == res.err = "NONE" /\ res.actual = G_USB_REPORT_SIZE
        d1 == IF ran THEN G_process_report(data) ELSE data
        d2 == [d1 EXCEPT !.prev_report = d1.report]
        d3 == [d2 EXCEPT !.transfer = IF rearm THEN "PTR" ELSE "NULL"]
        d4 == IF res.err # "WAIT" THEN d3 ELSE data
        p == G_key_queue_pop(d4)
    IN
    /\ impl = "gamepad"
    /\ terms[i].registered /\ mem[i] = "live"
    /\ ub' = (ub \/ nullxfer)
    /\ UNCHANGED <<impl, terms, mem>>
    /\ IF res.err = "CRASH"
       THEN /\ last' = Logged(Call("getkey", "crash", i, GRUB_TERM_NO_KEY, 0),
                              <<<<"check", i>>>>)
            /\ UNCHANGED <<sess, hw>>
       ELSE /\ sess' = [sess EXCEPT ![i] = Returned(p.data, p.ret)]
            /\ hw' = IF res.err # "WAIT"
                     THEN [hw EXCEPT ![i] = IF rearm THEN PendingRead ELSE NoRead]
                     ELSE hw
            /\ last' = Logged(Call("getkey",
                                   IF res.err = "WAIT" THEN "wait"
                                   ELSE IF rearm THEN "rearmed"
                                   ELSE "rearm_failed",
                                   i, p.ret, IF ran THEN 1 ELSE 0),
                              IF res.err = "WAIT" THEN <<<<"check", i>>>>
                              ELSE <<<<"check", i>>, <<"start", i>>>>)

(***************************************************************************)
(* grub_usb_snes_getkey, usb_snes.c                                        *)
(***************************************************************************)
S_QueueFirstMutNever(data) == FALSE

S_QueueFirstMutFull(data) == data.key_queue_count >= S_KEY_QUEUE_CAPACITY

\* if (data->key_queue_count > 0) return key_queue_pop (data);
S_QueueFirst(data) == data.key_queue_count > 0

S_getkey(i, rearm) ==
    LET data == sess[i]
        res == CheckTransfer(i)
        ran == res.err = "NONE" /\ res.actual >= 1
        d1 == IF ran
              THEN [S_parse_snes_report(data) EXCEPT !.prev_report = data.report]
              ELSE data
        d2 == [d1 EXCEPT !.transfer = IF rearm THEN "PTR" ELSE "NULL"]
        p0 == S_key_queue_pop(data)
        p2 == S_key_queue_pop(d2)
    IN
    /\ impl = "snes"
    /\ terms[i].registered /\ mem[i] = "live"
    /\ UNCHANGED <<impl, terms, mem, ub>>
    /\ IF data.dead # 0
       THEN /\ last' = Call("getkey", "dead", i, GRUB_TERM_NO_KEY, 0)
            /\ UNCHANGED <<sess, hw>>
       ELSE IF S_QueueFirst(data)
       THEN /\ sess' = [sess EXCEPT ![i] = Returned(p0.data, p0.ret)]
            /\ last' = Call("getkey", "queued", i, p0.ret, 0)
            /\ UNCHANGED hw
       ELSE IF res.err = "WAIT"
       THEN /\ last' = Logged(Call("getkey", "wait", i, GRUB_TERM_NO_KEY, 0),
                              <<<<"check", i>>>>)
            /\ UNCHANGED <<sess, hw>>
       ELSE IF ~rearm
       THEN /\ sess' = [sess EXCEPT ![i] = [d2 EXCEPT !.dead = 1]]
            /\ hw' = [hw EXCEPT ![i] = NoRead]
            /\ last' = Logged(Call("getkey", "rearm_failed", i,
                                   GRUB_TERM_NO_KEY, IF ran THEN 1 ELSE 0),
                              <<<<"check", i>>, <<"start", i>>>>)
       ELSE /\ sess' = [sess EXCEPT ![i] = Returned(p2.data, p2.ret)]
            /\ hw' = [hw EXCEPT ![i] = PendingRead]
            /\ last' = Logged(Call("getkey", "rearmed", i, p2.ret,
                                   IF ran THEN 1 ELSE 0),
                              <<<<"check", i>>, <<"start", i>>>>)

Poll(i) ==
    \E rearm \in BOOLEAN :
        \/ \E ubres \in UBResults : G_getkey(i, rearm, ubres)
        \/ S_getkey(i, rearm)

\* nothing runs after module teardown or after a crash
Running == last.op # "fini" /\ last.why # "crash"

(***************************************************************************)
(* Initial states                                                          *)
(***************************************************************************)
Devices == {"devA", "devB"}

\* the module was loaded and no device was offered yet
EmptyTable ==
    /\ terms = [i \in Slots |-> EmptySlot]
    /\ mem = [i \in Slots |-> "none"]
    /\ sess = [i \in Slots |-> NoSession]
    /\ hw = [i \in Slots |-> NoRead]

\* a first attach has succeeded (slot 0) and left session d, read state h
OneSession(d, h) ==
    /\ terms = [i \in Slots |->
                  IF i = 0
                  THEN [name |-> "STR", name_idx |-> 0, data |-> "PTR",
                        getkey |-> TRUE, registered |-> TRUE]
                  ELSE EmptySlot]
    /\ mem = [i \in Slots |-> IF i = 0 THEN "live" ELSE "none"]
    /\ sess = [i \in Slots |-> IF i = 0 THEN d ELSE NoSession]
    /\ hw = [i \in Slots |-> IF i = 0 THEN h ELSE NoRead]

FreshSession(usbdev) ==
    IF impl = "gamepad"
    THEN [G_NewSession(usbdev) EXCEPT !.transfer = "PTR"]
    ELSE [S_NewSession(usbdev) EXCEPT !.transfer = "PTR"]

Init ==
    /\ impl \in Impls
    /\ EmptyTable
    /\ last = Call("init", "ok", -1, GRUB_TERM_NO_KEY, 0)
    /\ ub = FALSE

(***************************************************************************)
(* The codec on its own: every pair of a previous and a current report of  *)
(* CodecInputs, in a session whose queue is empty.                         *)
(***************************************************************************)
AxisSamples == {0, 127, 255}
ButtonSamples == {0, 6, 255}
Bytes == 0 .. UINT8_MAX

CodecSession(p, c) ==
    OneSession([FreshSession("devA") EXCEPT !.prev_report = p, !.report = c],
               [st |-> "done", err |-> "NONE", actual |-> 8])

InitCodec ==
    /\ impl \in Impls
    /\ last = Call("init", "ok", -1, GRUB_TERM_NO_KEY, 0)
    /\ ub = FALSE
    /\ \E pc \in {"axis", "button", "mixed"} :
          \/ pc = "axis" /\ \E x \in Bytes, y \in AxisSamples,
                                q \in AxisSamples \X AxisSamples :
                \/ CodecSession(MkReport(q[1], q[2], 0), MkReport(x, y, 0))
                \/ CodecSession(MkReport(q[1], q[2], 0), MkReport(y, x, 0))
                \/ CodecSession(MkReport(x, y, 0), MkReport(q[1], q[2], 0))
                \/ CodecSession(MkReport(y, x, 0), MkReport(q[1], q[2], 0))
          \/ pc = "button" /\ \E pb \in Bytes, cb \in Bytes :
                CodecSession(MkReport(127, 127, pb), MkReport(127, 127, cb))
          \/ pc = "mixed" /\ \E q \in AxisSamples \X AxisSamples,
                                 r \in AxisSamples \X AxisSamples,
                                 pb \in ButtonSamples, cb \in ButtonSamples :
                CodecSession(MkReport(q[1], q[2], pb), MkReport(r[1], r[2], cb))

G_RunCodec ==
    /\ impl = "gamepad" /\ last.op = "init" /\ mem[0] = "live"
    /\ sess' = [sess EXCEPT ![0] = G_process_report(@)]
    /\ last' = Call("codec", "ok", 0, GRUB_TERM_NO_KEY, 0)
    /\ UNCHANGED <<impl, terms, mem, hw, ub>>

S_RunCodec ==
    /\ impl = "snes" /\ last.op = "init" /\ mem[0] = "live"
    /\ sess' = [sess EXCEPT ![0] = S_parse_snes_report(@)]
    /\ last' = Call("codec", "ok", 0, GRUB_TERM_NO_KEY, 0)
    /\ UNCHANGED <<impl, terms, mem, hw, ub>>

CodecNext == G_RunCodec \/ S_RunCodec

SpecCodec == InitCodec /\ [][CodecNext]_vars

(***************************************************************************)
(* Properties of the codec.  The channels are read off the reports here    *)
(* with the thresholds and bit positions the specification states.         *)
(***************************************************************************)
Count(q, k) == Cardinality({i \in DOMAIN q : q[i] = k})
Occurs(q, k) == \E i \in DOMAIN q : q[i] = k

ChanLevel(r, ch) ==
    CASE ch = "Up" -> r[2] < 63
      [] ch = "Down" -> r[2] > 191
      [] ch = "Left" -> r[1] < 63
      [] ch = "Right" -> r[1] > 191
      [] ch = "X" -> (r[5] \div 1) % 2 = 1
      [] ch = "A" -> (r[5] \div 2) % 2 = 1
      [] ch = "B" -> (r[5] \div 4) % 2 = 1
      [] ch = "Y" -> (r[5] \div 8) % 2 = 1
      [] ch = "L" -> (r[5] \div 16) % 2 = 1
      [] ch = "R" -> (r[5] \div 32) % 2 = 1
      [] ch = "Select" -> (r[5] \div 64) % 2 = 1
      [] ch = "Start" -> (r[5] \div 128) % 2 = 1

ChanRises(p, c, ch) ==
    IF ch = "AB"
    THEN \/ (~ChanLevel(p, "A")) /\ ChanLevel(c, "A")
         \/ (~ChanLevel(p, "B")) /\ ChanLevel(c, "B")
    ELSE (~ChanLevel(p, ch)) /\ ChanLevel(c, ch)

Directions == {"Up", "Down", "Left", "Right"}
Buttons == {"A", "B", "X", "Y", "Start", "Select", "L", "R"}

\* the key each file pushes for a channel
ChanKey(ch) ==
    CASE ch = "Up" -> GRUB_TERM_KEY_UP
      [] ch = "Down" -> GRUB_TERM_KEY_DOWN
      [] ch = "Left" -> GRUB_TERM_KEY_LEFT
      [] ch = "Right" -> GRUB_TERM_KEY_RIGHT
      [] ch = "AB" -> CHAR_CR
      [] ch = "A" -> CHAR_CR
      [] ch = "B" -> IF impl = "gamepad" THEN GRUB_TERM_ESC ELSE CHAR_CR
      [] ch = "X" -> IF impl = "gamepad" THEN CHAR_c ELSE CHAR_e
      [] ch = "Y" -> IF impl = "gamepad" THEN GRUB_TERM_ESC ELSE CHAR_c
      [] ch = "Start" -> CHAR_CR
      [] ch = "Select" -> IF impl = "gamepad" THEN CHAR_e ELSE GRUB_TERM_ESC
      [] ch = "L" -> GRUB_TERM_KEY_PPAGE
      [] ch = "R" -> GRUB_TERM_KEY_NPAGE

CodecDone == last.op = "codec"
One(b) == IF b THEN 1 ELSE 0

\* C1: in both files the codec enqueues a key only for a channel that is
\* false in the previous and true in the current report; each direction
\* enqueues its key exactly once if and only if it rises; equal reports
\* enqueue nothing.
C1_RisingEdgeOnly ==
    CodecDone =>
        LET q == sess[0].h_enq
            p == sess[0].prev_report
            c == sess[0].report
        IN /\ \A ch \in Directions :
                 Count(q, ChanKey(ch)) = One(ChanRises(p, c, ch))
           /\ \A i \in DOMAIN q :
                 \E ch \in Directions \cup Buttons :
                     ChanRises(p, c, ch) /\ ChanKey(ch) = q[i]
           /\ Len(q) <= Cardinality({ch \in Directions \cup Buttons :
                                       ChanRises(p, c, ch)})
           /\ (p = c => q = <<>>)
           /\ Contents(sess[0]) = q

C1_Witness ==
    /\ CodecDone
    /\ ChanLevel(sess[0].prev_report, "A") /\ ChanLevel(sess[0].report, "A")
    /\ ChanLevel(sess[0].prev_report, "Start")
    /\ ~ChanLevel(sess[0].report, "Start")
    /\ ChanRises(sess[0].prev_report, sess[0].report, "Up")
    /\ sess[0].h_enq = <<GRUB_TERM_KEY_UP>>

\* C2: in both files an axis byte v is low iff v < 0x3F, high iff v > 0xBF,
\* neutral otherwise (0x3E low, 0x3F and 0xBF neutral, 0xC0 high); no
\* report makes both Left and Right, or both Up and Down, true.
C2_AxisThresholds ==
    CodecDone =>
        LET q == sess[0].h_enq
            p == sess[0].prev_report
            c == sess[0].report
        IN /\ (p[1] = 127 =>
                 /\ Occurs(q, GRUB_TERM_KEY_LEFT) <=> c[1] < 63
                 /\ Occurs(q, GRUB_TERM_KEY_RIGHT) <=> c[1] > 191)
           /\ (p[2] = 127 =>
                 /\ Occurs(q, GRUB_TERM_KEY_UP) <=> c[2] < 63
                 /\ Occurs(q, GRUB_TERM_KEY_DOWN) <=> c[2] > 191)
           /\ ~(Occurs(q, GRUB_TERM_KEY_LEFT) /\ Occurs(q, GRUB_TERM_KEY_RIGHT))
           /\ ~(Occurs(q, GRUB_TERM_KEY_UP) /\ Occurs(q, GRUB_TERM_KEY_DOWN))

C2_Witness ==
    /\ CodecDone
    /\ sess[0].prev_report[1] = 127
    /\ sess[0].report[1] = 62
    /\ Occurs(sess[0].h_enq, GRUB_TERM_KEY_LEFT)

\* the keys of q that are no direction key
ButtonKeys(q) ==
    SelectSeq(q, LAMBDA k : k \notin {GRUB_TERM_KEY_UP, GRUB_TERM_KEY_DOWN,
                                      GRUB_TERM_KEY_LEFT, GRUB_TERM_KEY_RIGHT})

\* C3: in usb_snes.c a rising button of byte 4 enqueues exactly the key of
\* the table (A or B -> Enter, Start -> Enter, Select -> Escape, X -> 'e',
\* Y -> 'c', L -> PageUp, R -> PageDown) and no other key.
C3_StaticTable ==
    (CodecDone /\ impl = "snes") =>
        LET q == sess[0].h_enq
            p == sess[0].prev_report
            c == sess[0].report
        IN /\ Count(q, 13) = One(ChanRises(p, c, "A") \/ ChanRises(p, c, "B"))
                               + One(ChanRises(p, c, "Start"))
           /\ Count(q, 27) = One(ChanRises(p, c, "Select"))
           /\ Count(q, 101) = One(ChanRises(p, c, "X"))
           /\ Count(q, 99) = One(ChanRises(p, c, "Y"))
           /\ Count(q, GRUB_TERM_KEY_PPAGE) = One(ChanRises(p, c, "L"))
           /\ Count(q, GRUB_TERM_KEY_NPAGE) = One(ChanRises(p, c, "R"))
           /\ \A i \in DOMAIN ButtonKeys(q) :
                 ButtonKeys(q)[i] \in {13, 27, 101, 99, GRUB_TERM_KEY_PPAGE,
                                       GRUB_TERM_KEY_NPAGE}

C3_Witness ==
    /\ CodecDone /\ impl = "snes"
    /\ sess[0].prev_report[5] = 0 /\ sess[0].report[5] = 255
    /\ Len(sess[0].h_enq) = 7

\* C4: in usb_snes.c, from the baseline report, byte 4 = A enqueues exactly
\* [Enter], byte 4 = A|B enqueues exactly one Enter; A and B rising in the
\* same report enqueue a single Enter for the pair.
C4_MergeAB ==
    (CodecDone /\ impl = "snes") =>
        LET q == sess[0].h_enq
            p == sess[0].prev_report
            c == sess[0].report
        IN /\ (p = baseline_report /\ c = MkReport(127, 127, 2)) => q = <<13>>
           /\ (p = baseline_report /\ c = MkReport(127, 127, 6)) => q = <<13>>
           /\ (ChanRises(p, c, "A") /\ ChanRises(p, c, "B")) =>
                 Count(q, 13) = 1 + One(ChanRises(p, c, "Start"))

C4_Witness ==
    /\ CodecDone /\ impl = "snes"
    /\ sess[0].prev_report = baseline_report
    /\ sess[0].report = MkReport(127, 127, 6)
    /\ sess[0].h_enq = <<13>>

G_Order == <<"Up", "Down", "Left", "Right", "A", "B", "X", "Y", "Start",
             "Select", "L", "R">>
S_Order == <<"Up", "Down", "Left", "Right", "AB", "Start", "Select", "X",
             "Y", "L", "R">>

RisingInOrder(p, c) ==
    LET order == IF impl = "gamepad" THEN G_Order ELSE S_Order
        rising == SelectSeq(order, LAMBDA ch : ChanRises(p, c, ch))
    IN [i \in DOMAIN rising |-> ChanKey(rising[i])]

\* C5: the keys of the channels that rise in one report are appended in
\* the file's fixed order: Up, Down, Left, Right, A, B, X, Y, Start, Select,
\* L, R in usb_snes_gamepad.c; Up, Down, Left, Right, A/B, Start, Select, X,
\* Y, L, R in usb_snes.c.
C5_FixedOrder ==
    CodecDone =>
        /\ sess[0].h_enq = RisingInOrder(sess[0].prev_report, sess[0].report)
        /\ Contents(sess[0]) = sess[0].h_enq

C5_Witness ==
    /\ CodecDone /\ impl = "gamepad"
    /\ sess[0].prev_report = baseline_report
    /\ sess[0].report = MkReport(0, 0, 255)
    /\ Len(sess[0].h_enq) = 10

(***************************************************************************)
(* The ring queue on its own: key_queue_push and key_queue_pop applied to  *)
(* the queue of a fresh session, in any order.  The k-th push passes the   *)
(* key k (all distinct) or GRUB_TERM_NO_KEY.                               *)
(***************************************************************************)
MaxPush == 40

InitQueue ==
    /\ impl \in Impls
    /\ last = Call("init", "ok", -1, GRUB_TERM_NO_KEY, 0)
    /\ ub = FALSE
    /\ OneSession(FreshSession("devA"), PendingRead)

G_QPush(nokey) ==
    LET key == IF nokey THEN GRUB_TERM_NO_KEY ELSE Len(sess[0].h_enq) + 1 IN
    /\ impl = "gamepad"
    /\ Len(sess[0].h_enq) < MaxPush
    /\ sess' = [sess EXCEPT ![0] = G_key_queue_push(@, key)]
    /\ last' = Call("push", "ok", 0, key, 0)
    /\ UNCHANGED <<impl, terms, mem, hw, ub>>

S_QPush(nokey) ==
    LET key == IF nokey THEN GRUB_TERM_NO_KEY
               ELSE Len(sess[0].h_enq) + sess[0].h_drop + 1 IN
    /\ impl = "snes"
    /\ Len(sess[0].h_enq) + sess[0].h_drop < MaxPush
    /\ sess' = [sess EXCEPT ![0] = S_key_queue_push(@, key)]
    /\ last' = Call("push", "ok", 0, key, 0)
    /\ UNCHANGED <<impl, terms, mem, hw, ub>>

G_QPop ==
    LET p == G_key_queue_pop(sess[0]) IN
    /\ impl = "gamepad"
    /\ sess' = [sess EXCEPT ![0] = Returned(p.data, p.ret)]
    /\ last' = Call("pop", "ok", 0, p.ret, 0)
    /\ UNCHANGED <<impl, terms, mem, hw, ub>>

S_QPop ==
    LET p == S_key_queue_pop(sess[0]) IN
    /\ impl = "snes"
    /\ sess' = [sess EXCEPT ![0] = Returned(p.data, p.ret)]
    /\ last' = Call("pop", "ok", 0, p.ret, 0)
    /\ UNCHANGED <<impl, terms, mem, hw, ub>>

QueueNext ==
    \/ \E nokey \in BOOLEAN : G_QPush(nokey) \/ S_QPush(nokey)
    \/ G_QPop
    \/ S_QPop

SpecQueue == InitQueue /\ [][QueueNext]_vars

\* the last n elements of q
LastN(q, n) == [i \in 1 .. n |-> q[Len(q) - n + i]]

\* usb_snes_gamepad.c: no key was popped before the last push, i.e. every
\* push after the 32nd found the queue full
G_NoPopBeforeLastPush(d) ==
    /\ Len(d.h_enq) > 32
    /\ d.h_evict = Len(d.h_enq) - 32

C6_State ==
    impl = "gamepad" =>
        LET d == sess[0] IN
        /\ d.key_queue_size <= 32
        \* a push of a key other than NoKey stores it at the tail
        /\ (last.op = "push" /\ last.key # 0) =>
               /\ d.key_queue_size >= 1
               /\ G_Contents(d)[d.key_queue_size] = last.key
        \* n > 32 pushes, then pops: the last 32 keys, in push order
        /\ G_NoPopBeforeLastPush(d) =>
               /\ d.h_ret \o G_Contents(d) = LastN(d.h_enq, 32)
               /\ (Len(d.h_ret) = 32 => d.key_queue_size = 0)
        \* a pop returns NoKey only from an empty queue
        /\ (last.op = "pop" /\ last.key = 0) => d.key_queue_size = 0

C6_Step ==
    impl = "gamepad" =>
        LET d == sess[0]
            e == sess'[0]
        IN /\ (last'.op = "push" /\ last'.key # 0) =>
                 G_Contents(e) =
                    IF d.key_queue_size = 32
                    THEN Append(Tail(G_Contents(d)), last'.key)
                    ELSE Append(G_Contents(d), last'.key)
           /\ (last'.op = "pop" /\ d.key_queue_size = 0) =>
                 last'.key = 0 /\ e = d

\* C6: in usb_snes_gamepad.c a push of a key other than NoKey never fails;
\* on a queue of 32 keys it evicts the oldest key and stores the new one at
\* the tail, the size staying 32.  After n > 32 pushes of distinct keys
\* with no pops, 32 pops return the last 32 pushed keys in push order and
\* further pops return NoKey.
C6_OverwriteOldest == []C6_State /\ [][C6_Step]_vars

C6_Witness ==
    /\ impl = "gamepad"
    /\ Len(sess[0].h_enq) = 40
    /\ sess[0].h_evict = 8
    /\ sess[0].h_ret = [i \in 1 .. 32 |-> i + 8]
    /\ last.op = "pop" /\ last.key = 0

(***************************************************************************)
(* The slot registry: attach, detach and module teardown in any order,     *)
(* each attach failing at any step.                                        *)
(***************************************************************************)
\* the slots a rejected attach has left half-written
Partial == {i \in Slots : i \in Dangling \/ terms[i].name = "FREED"}

\* at most MaxPartial slots are half-written at a time
MaxPartial == 1

\* devA is a composite device that offers the driver one interface after
\* another; devB has a single interface, offered again once devB was detached
Offered(usbdev) ==
    \/ usbdev = "devA"
    \/ \A i \in Slots : ~(mem[i] = "live" /\ sess[i].usbdev = usbdev)

\* the calls of attach the environment makes
MayAttach(usbdev, fail) ==
    /\ Running
    /\ Offered(usbdev)
    /\ fail \in {"name", "read"} => Cardinality(Partial) < MaxPartial

RegistryNext ==
    \/ \E usbdev \in Devices, fail \in AttachFails :
          MayAttach(usbdev, fail) /\ G_attach(usbdev, fail)
    \/ \E usbdev \in Devices, fail \in AttachFails :
          MayAttach(usbdev, fail) /\ S_attach(usbdev, fail)
    \/ \E usbdev \in Devices, U \in SUBSET Dangling :
          Running /\ G_detach(usbdev, U)
    \/ \E usbdev \in Devices, U \in SUBSET Dangling :
          Running /\ S_detach(usbdev, U)
    \/ Running /\ G_fini
    \/ Running /\ S_fini

SpecRegistry == Init /\ [][RegistryNext]_vars

(***************************************************************************)
(* Claims about the slot registry                                          *)
(***************************************************************************)
RejectedAttach == last'.op = "attach" /\ last'.rc = 0
AcceptedAttach == last'.op = "attach" /\ last'.rc = 1

\* C9: whenever attach is rejected (no free slot, no endpoint, a failed
\* allocation of the session or of the name, an initial read that cannot be
\* started), the slot table after the call equals the slot table before it.
C9_RejectedAttachNoChange == [][RejectedAttach => terms' = terms]_vars

\* C10: a successful attach places the new session in the lowest-index slot
\* whose session pointer is null at the time of the call and registers it
\* under the name built from that index, whatever attaches and detaches
\* came before; no other slot changes.
C10_Step ==
    AcceptedAttach =>
        LET free == {i \in Slots : terms[i].data = "NULL"}
            curnum == last'.slot
        IN /\ free # {}
           /\ curnum = MinOf(free)
           /\ terms'[curnum].data = "PTR" /\ mem'[curnum] = "live"
           /\ terms'[curnum].name = "STR" /\ terms'[curnum].name_idx = curnum
           /\ terms'[curnum].registered
           /\ \A j \in Slots \ {curnum} : terms'[j] = terms[j]

C10_LowestFreeSlot == [][C10_Step]_vars

\* an attach has reused slot 1, freed by a detach, between two occupied slots
C10_Witness ==
    /\ last.op = "attach" /\ last.rc = 1 /\ last.slot = 1
    /\ terms[0].data = "PTR" /\ terms[2].data = "PTR"
    /\ mem[0] = "live" /\ mem[2] = "live"

(***************************************************************************)
(* One attached session (slot 0): the host completes its reads and the     *)
(* terminal layer polls it.                                                *)
(***************************************************************************)
LeftReport == MkReport(0, 127, 0)
AllPressed == MkReport(0, 0, 255)
SessionReports == {baseline_report, LeftReport, AllPressed}

\* how a read may end: status and number of bytes stored
Completions ==
    {[err |-> "NONE", n |-> 8], [err |-> "NONE", n |-> 4], [err |-> "ERR", n |-> 0]}

\* reads stop completing once MaxEnq keys were enqueued
MaxEnq == 3

InitSession ==
    /\ impl \in Impls
    /\ OneSession(FreshSession("devA"), PendingRead)
    /\ last = Logged(Call("attach", "ok", 0, GRUB_TERM_NO_KEY, 1),
                     <<<<"start", 0>>, <<"register", 0>>>>)
    /\ ub = FALSE

SessionNext ==
    \/ \E r \in SessionReports, c \in Completions :
          /\ Running /\ mem[0] = "live"
          /\ Len(sess[0].h_enq) < MaxEnq
          /\ ReadComplete(0, r, c.err, c.n)
    \/ \E rearm \in BOOLEAN, ubres \in UBResults :
          Running /\ G_getkey(0, rearm, ubres)
    \/ \E rearm \in BOOLEAN :
          Running /\ S_getkey(0, rearm)
    \/ \E usbdev \in Devices, U \in SUBSET Dangling :
          Running /\ G_detach(usbdev, U)
    \/ \E usbdev \in Devices, U \in SUBSET Dangling :
          Running /\ S_detach(usbdev, U)
    \/ Running /\ G_fini
    \/ Running /\ S_fini

SpecSession == InitSession /\ [][SessionNext]_vars

(***************************************************************************)
(* The same session under sustained input: the pad alternates between      *)
(* released and everything pressed, so that the queue fills up.            *)
(***************************************************************************)
BurstReports == {baseline_report, AllPressed}
BurstCompletions == {[err |-> "NONE", n |-> 8], [err |-> "ERR", n |-> 0]}

\* reads stop completing once MaxBurstEnq keys were enqueued
MaxBurstEnq == 31

BurstNext ==
    \/ \E r \in BurstReports, c \in BurstCompletions :
          /\ Running /\ mem[0] = "live"
          /\ Len(sess[0].h_enq) < MaxBurstEnq
          /\ ReadComplete(0, r, c.err, c.n)
    \/ \E rearm \in BOOLEAN, ubres \in UBResults :
          Running /\ G_getkey(0, rearm, ubres)
    \/ \E rearm \in BOOLEAN :
          Running /\ S_getkey(0, rearm)

SpecBurst == InitSession /\ [][BurstNext]_vars

(***************************************************************************)
(* Claims about polling                                                    *)
(***************************************************************************)
\* a call of grub_usb_snes_getkey has returned
PollReturns == last'.op = "getkey" /\ last'.why # "crash"

C7_State ==
    impl = "gamepad" =>
        LET d == sess[0] IN
        /\ Len(d.h_enq) = Len(d.h_ret) + d.h_evict + d.key_queue_size
        /\ G_Contents(d) = LastN(d.h_enq, d.key_queue_size)
        /\ \A k \in 1 .. Len(d.h_ret) : d.h_ret[k] # GRUB_TERM_NO_KEY

\* K: the keys the codec enqueued in this call; Q: the queue with them
\* appended; ev: the pushes that found the queue full; Qe: Q less the ev
\* oldest keys
C7_Step ==
    (impl = "gamepad" /\ PollReturns) =>
        LET d == sess[0]
            e == sess'[0]
            K == SubSeq(e.h_enq, Len(d.h_enq) + 1, Len(e.h_enq))
            Q == G_Contents(d) \o K
            ev == e.h_evict - d.h_evict
            Qe == SubSeq(Q, ev + 1, Len(Q))
        IN /\ SubSeq(e.h_enq, 1, Len(d.h_enq)) = d.h_enq
           /\ ev = IF Len(Q) > G_KEY_QUEUE_CAPACITY
                   THEN Len(Q) - G_KEY_QUEUE_CAPACITY ELSE 0
           /\ IF Qe = <<>>
              THEN /\ last'.key = GRUB_TERM_NO_KEY
                   /\ e.h_ret = d.h_ret
                   /\ G_Contents(e) = <<>>
              ELSE /\ last'.key = Head(Qe)
                   /\ e.h_ret = Append(d.h_ret, Head(Qe))
                   /\ G_Contents(e) = Tail(Qe)

\* C7: in usb_snes_gamepad.c, over any sequence of polls and read
\* completions of one session, every poll returns one key or NoKey; the keys
\* returned are the keys the codec enqueued, in enqueue order, none twice;
\* the only enqueued keys never returned are those evicted as the oldest
\* element by a push that found the queue full.
C7_FifoAcrossPolls == []C7_State /\ [][C7_Step]_vars

\* a poll has returned a key after pushes had evicted the oldest keys
C7_Witness ==
    /\ impl = "gamepad"
    /\ last.op = "getkey" /\ last.key # GRUB_TERM_NO_KEY
    /\ sess[0].h_evict >= 2
    /\ Len(sess[0].h_ret) >= 10

\* a freshly attached session: baseline previous report, empty queue
Fresh(d) == [d EXCEPT !.report = ZeroReport] = FreshSession("devA")

ReadDone(i) == hw[i] = [st |-> "done", err |-> "NONE", actual |-> 8]

\* the session after poll 2 of the scenario: Left was enqueued and returned
AfterLeft(d) ==
    /\ d.h_enq = <<GRUB_TERM_KEY_LEFT>> /\ d.h_ret = <<GRUB_TERM_KEY_LEFT>>
    /\ Contents(d) = <<>>
    /\ d.prev_report = LeftReport
    /\ d.transfer = "PTR"

C8_Step ==
    last'.op = "getkey" =>
        LET d == sess[0]
            e == sess'[0]
        IN \* poll 1: the first read is still pending
           /\ (Fresh(d) /\ hw[0].st = "pending") =>
                  last'.key = GRUB_TERM_NO_KEY /\ e = d
           \* poll 2: the read has completed with LeftReport
           /\ (Fresh(d) /\ ReadDone(0) /\ d.report = LeftReport
                 /\ last'.why = "rearmed") =>
                  /\ last'.key = GRUB_TERM_KEY_LEFT
                  /\ e.h_enq = <<GRUB_TERM_KEY_LEFT>>
                  /\ Contents(e) = <<>>
                  /\ hw'[0] = PendingRead
           \* poll 3: the re-armed read has completed with the same bytes
           /\ (AfterLeft(d) /\ ReadDone(0) /\ d.report = LeftReport) =>
                  /\ last'.key = GRUB_TERM_NO_KEY
                  /\ e.h_enq = <<GRUB_TERM_KEY_LEFT>>
                  /\ Contents(e) = <<>>

\* C8: in both implementations, for a freshly attached session whose first
\* read is pending at poll 1, completes with {0x00,0x7F,0x7F,0x7F,0,0,0,0}
\* before poll 2 and, re-armed, completes with the same bytes before poll 3:
\* poll 1 returns NoKey, poll 2 returns Left (the codec having enqueued
\* exactly [Left]), poll 3 returns NoKey with the queue empty.
C8_ThreePolls == [][C8_Step]_vars

\* poll 3 of the scenario has returned
C8_Witness ==
    /\ impl = "gamepad" /\ ~ub
    /\ last.op = "getkey" /\ last.why = "rearmed" /\ last.rc = 1
    /\ last.key = GRUB_TERM_NO_KEY
    /\ sess[0].h_enq = <<GRUB_TERM_KEY_LEFT>>
    /\ sess[0].h_ret = <<GRUB_TERM_KEY_LEFT>>
    /\ sess[0].report = LeftReport /\ sess[0].prev_report = LeftReport
    /\ Contents(sess[0]) = <<>>

(***************************************************************************)
(* Claims about detach and module teardown                                 *)
(***************************************************************************)
\* slot i holds a session whose stored device handle is h
Holds(i, h) == terms[i].data = "PTR" /\ mem[i] = "live" /\ sess[i].usbdev = h

InLog(f, i) == \E k \in 1 .. Len(last'.calls) : last'.calls[k] = <<f, i>>

\* the first position of call f for slot i in the log of the last call
PosInLog(f, i) ==
    MinOf({k \in 1 .. Len(last'.calls) : last'.calls[k] = <<f, i>>})

DetachEffect(h) ==
    \A i \in Slots :
        IF Holds(i, h)
        THEN /\ terms'[i].data = "NULL" /\ terms'[i].name = "NULL"
             /\ ~terms'[i].registered
             /\ mem'[i] = "none"
             /\ hw[i].st = "pending" => InLog("cancel", i)
        ELSE terms'[i] = terms[i] /\ mem'[i] = mem[i] /\ sess'[i] = sess[i]

\* C11: grub_usb_snes_detach(h) cancels the outstanding read, unregisters
\* the input source, releases the session and nulls the session pointer of
\* every slot whose stored device handle equals h and leaves every other
\* slot unchanged; a handle stored in no slot, or detached before, changes
\* nothing.
C11_DetachFrame ==
    [][last'.op = "detach" => DetachEffect(last'.dev)]_vars

\* a read in flight belongs to a live session
NoLeakedRead == \A i \in Slots : hw[i].st = "pending" => mem[i] = "live"

TearsDown(i) == terms[i].data = "PTR" /\ terms'[i].data = "NULL"

C12_Step ==
    /\ last'.op \in {"detach", "fini"} =>
          \A i \in Slots :
              TearsDown(i) =>
                  /\ InLog("unregister", i) /\ InLog("free_data", i)
                  /\ (mem[i] = "live" /\ hw[i].st = "pending") =>
                         /\ InLog("cancel", i)
                         /\ PosInLog("cancel", i) < PosInLog("unregister", i)
                         /\ PosInLog("cancel", i) < PosInLog("free_data", i)
                  /\ hw'[i].st # "pending"
    /\ last'.op = "fini" =>
          \A i \in Slots :
              /\ terms'[i].data = "NULL" /\ ~terms'[i].registered
              /\ mem'[i] = "none" /\ hw'[i].st # "pending"
              /\ terms[i].data = "PTR" => TearsDown(i)

\* C12: in every detach and in module teardown, the read in flight of each
\* session torn down is cancelled before its input source is unregistered
\* and before the session is freed; after module teardown every slot is
\* empty, and no started read that neither completed nor was cancelled
\* remains.
C12_NoLeakedRead == []NoLeakedRead /\ [][C12_Step]_vars

\* module teardown has torn down three sessions with reads in flight
C12_Witness ==
    /\ last.op = "fini" /\ ~ub
    /\ Len(last.calls) = 12
    /\ last.calls[1] = <<"cancel", 0>> /\ last.calls[2] = <<"unregister", 0>>
    /\ last.calls[9] = <<"cancel", 2>> /\ last.calls[12] = <<"free_data", 2>>

(***************************************************************************)
(* Claims about failed reads and dead sessions                             *)
(***************************************************************************)
\* C13: in usb_snes.c, after re-arming the read has failed, the keys that
\* were in the queue at that moment are still returned by the following
\* polls, one per call in FIFO order; poll returns NoKey only once the
\* queue is empty.
C13_DeadDrains ==
    [][(impl = "snes" /\ last'.op = "getkey" /\ sess[0].dead = 1) =>
          LET q == S_Contents(sess[0]) IN
          IF q = <<>>
          THEN last'.key = GRUB_TERM_NO_KEY
          ELSE last'.key = Head(q) /\ S_Contents(sess'[0]) = Tail(q)]_vars

\* the poll finds the read of slot 0 finished and looks at its result
S_SeesResult ==
    /\ impl = "snes" /\ last'.op = "getkey"
    /\ sess[0].dead = 0 /\ sess[0].key_queue_count = 0
    /\ hw[0].st = "done"

FullReport(i) == hw[i].err = "NONE" /\ hw[i].actual = 8

\* C14: in usb_snes.c, grub_usb_snes_getkey runs the codec and copies the
\* report into the previous report only when the read completed without
\* error and with 8 bytes; a read that completed with fewer bytes enqueues
\* no key, keeps the session alive and is followed by a re-arm.
C14_FullLengthOnly ==
    [][S_SeesResult =>
          IF FullReport(0)
          THEN sess'[0].prev_report = sess[0].report
          ELSE /\ sess'[0].h_enq = sess[0].h_enq
               /\ sess'[0].prev_report = sess[0].prev_report
               /\ InLog("start", 0)
               /\ last'.why = "rearmed" => sess'[0].dead = 0]_vars

\* the poll finds the read of slot 0 finished, failed or short
G_SeesFailedRead ==
    /\ impl = "gamepad" /\ last'.op = "getkey"
    /\ sess[0].transfer = "PTR"
    /\ hw[0].st = "done" /\ ~FullReport(0)

\* C15: in usb_snes_gamepad.c, when the read completes with an error or
\* with fewer than 8 bytes, grub_usb_snes_getkey enqueues no key, leaves
\* prev_report unchanged and still attempts to start a new read.
C15_FailedReadKeepsBaseline ==
    [][G_SeesFailedRead =>
          /\ sess'[0].h_enq = sess[0].h_enq
          /\ sess'[0].prev_report = sess[0].prev_report
          /\ InLog("start", 0)]_vars

\* C18: in usb_snes_gamepad.c, once starting a new read in
\* grub_usb_snes_getkey has failed (the read handle is null), no later poll
\* performs a read-completion check or starts another read; later polls
\* only pop keys that are already queued.
C18_NoReadAfterFailedRearm ==
    [][(impl = "gamepad" /\ last'.op = "getkey" /\ sess[0].transfer = "NULL") =>
          LET q == G_Contents(sess[0]) IN
          /\ last'.calls = <<>>
          /\ sess'[0].transfer = "NULL" /\ hw' = hw
          /\ sess'[0].h_enq = sess[0].h_enq
          /\ last'.key = IF q = <<>> THEN GRUB_TERM_NO_KEY ELSE Head(q)]_vars

S_Dead(i) == mem[i] = "live" /\ sess[i].dead = 1

C19_Step ==
    impl = "snes" =>
        \* the failed re-arm
        /\ (last'.op = "getkey" /\ last'.why = "rearm_failed") =>
               /\ sess'[0].dead = 1 /\ sess'[0].transfer = "NULL"
               /\ last'.key = GRUB_TERM_NO_KEY
        \* the flag stays set while the session lives
        /\ (S_Dead(0) /\ mem'[0] = "live") => sess'[0].dead = 1
        \* later polls
        /\ (last'.op = "getkey" /\ S_Dead(0)) =>
               /\ last'.key = GRUB_TERM_NO_KEY /\ last'.calls = <<>>
               /\ sess' = sess /\ hw' = hw
        \* a matching detach, or module teardown
        /\ (S_Dead(0) /\ (last'.op = "fini"
                            \/ (last'.op = "detach"
                                 /\ last'.dev = sess[0].usbdev))) =>
               /\ terms'[0].data = "NULL" /\ ~terms'[0].registered
               /\ mem'[0] = "none"
               /\ InLog("unregister", 0) /\ InLog("free_data", 0)
               /\ ~InLog("cancel", 0)

\* C19: in usb_snes.c, a failed re-arm sets the dead flag and the poll
\* returns NoKey; the flag is never cleared; every later poll returns NoKey
\* without checking or starting a read and without changing the session;
\* a matching detach or module teardown still unregisters and frees the
\* dead session, with no cancel call.
C19_DeadIsTerminal == [][C19_Step]_vars

\* a dead session of usb_snes.c was polled and then detached
C19_Witness ==
    /\ impl = "snes"
    /\ last.op = "detach" /\ last.dev = "devA"
    /\ last.calls = <<<<"unregister", 0>>, <<"free_name", 0>>, <<"free_data", 0>>>>
    /\ terms[0].data = "NULL"

C20_Step ==
    last'.op = "getkey" =>
        /\ last'.calls \in {<<>>, <<<<"check", 0>>>>,
                            <<<<"check", 0>>, <<"start", 0>>>>}
        \* no read is started while one is in flight
        /\ InLog("start", 0) => hw[0].st # "pending"
        /\ hw[0].st = "pending" => hw' = hw

\* C20: in both implementations one call of grub_usb_snes_getkey makes at
\* most one read-completion check and at most one start of a read, and it
\* starts a read only after the check of the same call reported the
\* previous read as finished; a session never has two reads in flight.
C20_OneCheckOneRearm == [][C20_Step]_vars

\* a poll has checked a finished read and started the next one
C20_Witness ==
    /\ ~ub
    /\ last.op = "getkey" /\ last.why = "rearmed"
    /\ last.calls = <<<<"check", 0>>, <<"start", 0>>>>
    /\ hw[0].st = "pending"

(***************************************************************************)
(* Invariants                                                              *)
(***************************************************************************)
\* C16: after any sequence of attach calls (succeeding or rejected at any
\* step), detach calls and module teardown, the input source of slot i is
\* registered if and only if the slot's session pointer is non-null.
C16_RegisteredIffSession ==
    \A i \in Slots : terms[i].registered <=> terms[i].data # "NULL"

G_WellFormed(d) ==
    /\ 0 <= d.key_queue_size /\ d.key_queue_size <= 32
    /\ 0 <= d.key_queue_begin /\ d.key_queue_begin < 32
    /\ \A k \in 1 .. d.key_queue_size : G_Contents(d)[k] # GRUB_TERM_NO_KEY

S_WellFormed(d) ==
    /\ 0 <= d.key_queue_count /\ d.key_queue_count <= 32
    /\ 0 <= d.key_queue_head /\ d.key_queue_head < 32
    /\ 0 <= d.key_queue_tail /\ d.key_queue_tail < 32
    /\ d.key_queue_tail = (d.key_queue_head + d.key_queue_count) % 32
    /\ \A k \in 1 .. d.key_queue_count : S_Contents(d)[k] # GRUB_TERM_NO_KEY

C17_State ==
    \A i \in Slots :
        mem[i] = "live" =>
            IF impl = "gamepad" THEN G_WellFormed(sess[i]) ELSE S_WellFormed(sess[i])

C17_Step ==
    (last'.op = "push" /\ last'.key = GRUB_TERM_NO_KEY) => sess' = sess

\* C17: for every live session, after any sequence of pushes and pops,
\* 0 <= size <= 32 and 0 <= head < 32; in usb_snes.c also 0 <= tail < 32 and
\* tail = (head + count) mod 32; none of the stored elements is NoKey, a
\* push of NoKey changing nothing.
C17_QueueWellFormed == []C17_State /\ [][C17_Step]_vars

\* a full queue of usb_snes.c whose head and tail have wrapped around
C17_Witness ==
    /\ impl = "snes"
    /\ sess[0].key_queue_count = 32
    /\ sess[0].key_queue_head = 5 /\ sess[0].key_queue_tail = 5
    /\ last.op = "push" /\ last.key = GRUB_TERM_NO_KEY

(***************************************************************************)
(* Claims about the queue of usb_snes.c                                    *)
(***************************************************************************)
C21_Step ==
    LET i == last'.slot IN
    (impl = "snes" /\ last'.op = "getkey"
       /\ sess[i].dead = 0 /\ sess[i].key_queue_count > 0) =>
        LET d == sess[i]
            e == sess'[i]
        IN /\ last'.key = Head(S_Contents(d))
           /\ e.key_queue_count = d.key_queue_count - 1
           /\ S_Contents(e) = Tail(S_Contents(d))
           /\ e.transfer = d.transfer
           /\ e.report = d.report
           /\ e.prev_report = d.prev_report
           /\ hw' = hw
           /\ last'.calls = <<>>

\* C21: in usb_snes.c, a call of grub_usb_snes_getkey entered with a session
\* that is not dead and whose queue is non-empty returns the head key,
\* decreases the count by exactly one, leaves the read handle, the report
\* buffer and the previous report unchanged, and neither checks a read for
\* completion nor starts one.
C21_QueueFirstPoll == [][C21_Step]_vars

\* a poll has popped a queued key while a completed read was waiting
C21_Witness ==
    /\ impl = "snes"
    /\ last.op = "getkey" /\ last.why = "queued"
    /\ last.key # GRUB_TERM_NO_KEY
    /\ sess[0].key_queue_count >= 1
    /\ hw[0].st = "done"

(***************************************************************************)
(* Claims about the key map of usb_snes_gamepad.c                          *)
(***************************************************************************)
\* C22: in usb_snes_gamepad.c a rising button enqueues the key of the static
\* table (Start -> Enter, Select -> Escape, X -> 'e', L -> PageUp,
\* R -> PageDown, A -> Enter) except that Y enqueues Escape and B enqueues
\* an Enter of its own, A and B being two separate channels.
C22_VariantMapping ==
    (CodecDone /\ impl = "gamepad") =>
        LET q == sess[0].h_enq
            p == sess[0].prev_report
            c == sess[0].report
        IN /\ Count(q, CHAR_CR) = One(ChanRises(p, c, "A"))
                                    + One(ChanRises(p, c, "B"))
                                    + One(ChanRises(p, c, "Start"))
           /\ Count(q, GRUB_TERM_ESC) = One(ChanRises(p, c, "Y"))
                                          + One(ChanRises(p, c, "Select"))
           /\ Count(q, CHAR_e) = One(ChanRises(p, c, "X"))
           /\ Count(q, CHAR_c) = 0
           /\ Count(q, GRUB_TERM_KEY_PPAGE) = One(ChanRises(p, c, "L"))
           /\ Count(q, GRUB_TERM_KEY_NPAGE) = One(ChanRises(p, c, "R"))

\* usb_snes.c: every key the queue accepted is returned or still queued, in
\* the order of acceptance
C23_State ==
    impl = "snes" =>
        LET d == sess[0] IN d.h_ret \o S_Contents(d) = d.h_enq

C23_Step ==
    (impl = "snes" /\ last'.op = "push"
       /\ sess[0].key_queue_count = S_KEY_QUEUE_CAPACITY) =>
        LET d == sess[0]
            e == sess'[0]
        IN /\ e.key_queue = d.key_queue
           /\ e.key_queue_head = d.key_queue_head
           /\ e.key_queue_tail = d.key_queue_tail
           /\ e.key_queue_count = d.key_queue_count
           /\ S_Contents(e) = S_Contents(d)
           /\ e.h_enq = d.h_enq

\* C23: in usb_snes.c, key_queue_push called on a queue that holds 32 keys
\* leaves contents, head, tail and count unchanged: the new key is
\* discarded, and the 32 older keys are later popped in their original
\* order.
C23_DropNewest == []C23_State /\ [][C23_Step]_vars

\* 40 keys were pushed, the last 8 on a full queue; 32 pops returned the
\* first 32 keys in push order and one more pop returned NoKey
C23_Witness ==
    /\ impl = "snes"
    /\ sess[0].h_drop = 8
    /\ sess[0].h_ret = [i \in 1 .. 32 |-> i]
    /\ sess[0].key_queue_count = 0
    /\ last.op = "pop" /\ last.key = GRUB_TERM_NO_KEY

(***************************************************************************)
(* Memory safety of the slot table                                         *)
(***************************************************************************)
\* C24: in both files, under any sequence of attaches (failing at the name
\* or the read step or succeeding), detaches and module teardown, every
\* non-null session pointer stored in a slot refers to a session that was
\* not freed, and no call has read a field of, cancelled a handle of, or
\* freed again, a freed session.
C24_SlotTableMemorySafe ==
    /\ \A i \in Slots : terms[i].data # "NULL" => mem[i] = "live"
    /\ ~ub

(***************************************************************************)
(* Claims about the queue's occupancy in usb_snes.c                        *)
(***************************************************************************)
\* the most keys one report can raise: one of Up/Down, one of Left/Right,
\* one Enter for A/B, and Start, Select, X, Y, L, R
MaxKeysPerReport == 9

C25_State ==
    (impl = "snes" /\ mem[0] = "live") =>
        /\ sess[0].key_queue_count <= MaxKeysPerReport
        /\ sess[0].h_drop = 0

C25_Step ==
    (impl = "snes" /\ last'.op = "getkey" /\ last'.rc = 1) =>
        /\ sess[0].key_queue_count = 0
        /\ Len(sess'[0].h_enq) - Len(sess[0].h_enq) <= MaxKeysPerReport

\* C25: in usb_snes.c, grub_usb_snes_getkey runs the codec only when the
\* queue is empty and one report raises at most 9 keys, so in every state of
\* a session driven through attach and polls the count is at most 9, the
\* count >= 32 branch of key_queue_push is never taken and no key is
\* dropped.
C25_OverflowUnreachable == []C25_State /\ [][C25_Step]_vars

\* a report raised 9 keys and the re-arm failed, so none was popped
C25_Witness ==
    /\ impl = "snes"
    /\ last.op = "getkey" /\ last.rc = 1
    /\ sess[0].key_queue_count = MaxKeysPerReport
    /\ Len(sess[0].h_enq) >= 2 * MaxKeysPerReport

(***************************************************************************)
(* One attached session that the terminal layer keeps polling: every       *)
(* re-arm succeeds, and once MaxDrainEnq keys were enqueued the pad is     *)
(* released, so that the reads complete with the baseline report.          *)
(***************************************************************************)
LeftUpReport == MkReport(0, 0, 0)
DrainReports == {baseline_report, LeftReport, LeftUpReport}

\* reads stop bringing pressed channels once MaxDrainEnq keys were enqueued
MaxDrainEnq == 5

DrainComplete ==
    \E r \in DrainReports, c \in BurstCompletions :
        /\ Len(sess[0].h_enq) < MaxDrainEnq \/ r = baseline_report
        /\ ReadComplete(0, r, c.err, c.n)

G_DrainPoll == \E ubres \in UBResults : G_getkey(0, TRUE, ubres)

S_DrainPoll == S_getkey(0, TRUE)

DrainNext ==
    \/ DrainComplete
    \/ G_DrainPoll
    \/ S_DrainPoll

\* grub's input loop calls getkey of every registered source again and again
SpecDrain ==
    InitSession /\ [][DrainNext]_vars
    /\ WF_vars(G_DrainPoll) /\ WF_vars(S_DrainPoll)

Drained ==
    /\ Contents(sess[0]) = <<>>
    /\ sess[0].h_ret = sess[0].h_enq

C26_Step ==
    (last'.op = "getkey" /\ Contents(sess[0]) # <<>>
       /\ sess'[0].h_enq = sess[0].h_enq) =>
        /\ last'.key = Head(Contents(sess[0]))
        /\ Contents(sess'[0]) = Tail(Contents(sess[0]))

\* C26: in both implementations, for a session that is polled again and
\* again, whose re-arms succeed and whose reports from some point on raise
\* no channel, every poll with a non-empty queue and no new key removes
\* exactly the head, every queued key is eventually returned, and from some
\* point on every poll returns NoKey.
C26_QueueDrains ==
    /\ [][C26_Step]_vars
    /\ (Contents(sess[0]) # <<>>) ~> Drained
    /\ <>[](Drained /\ (last.op = "getkey" => last.key = GRUB_TERM_NO_KEY))

\* two bursts of two keys were drained and a later poll returned NoKey
C26_Witness ==
    /\ ~ub
    /\ Len(sess[0].h_ret) >= 4
    /\ Drained
    /\ last.op = "getkey" /\ last.key = GRUB_TERM_NO_KEY /\ last.rc = 1
    /\ sess[0].report = baseline_report
====
